---- MODULE Spec2Model ----
(***************************************************************************)
(* OMNI-PRIME conversation streaming orchestrator and async tool pipeline. *)
(*                                                                         *)
(* One request of streamConversation (src/app/api/chat/stream/route.ts)    *)
(* runs against the persistence layer while the BullMQ tool worker         *)
(* (src/lib/queue/queues.ts, processToolJob) executes the jobs the request *)
(* submits.  Every await of the two programs is one step, so the worker,   *)
(* the client's disconnect and the request interleave at the points where  *)
(* the event loop can switch between them.                                 *)
(***************************************************************************)
EXTENDS Integers, Sequences, FiniteSets, TLC

\* ---------------------------------------------------------------------------
\* Bounds of the model
\* ---------------------------------------------------------------------------

\* gateway chunks delivered to one request
MaxChunks == 2

\* ToolCall rows (and jobs) one request may create
MaxToolCalls == 1

\* tool calls the worker makes against the server, possibly at the same time
MaxCalls == 2

\* connectServer calls that get past the `existing` check
MaxConnects == 2

\* completion requests made to the gateway
MaxRequests == 3

\* chat requests running against one session, possibly at the same time
MaxConcurrent == 2

\* NDJSON lines or completion chunks a provider sends in one stream
MaxDeltas == 3

\* sendMessage calls of the client store, possibly overlapping
MaxSends == 2

\* SSE frames the client reads in one sendMessage call
MaxFrames == 2

\* connectServer calls for one server id, possibly at the same time
MaxConnectors == 2

\* messages a session holds before the request
MaxPrior == 11

\* ---------------------------------------------------------------------------
\* Program constants and value domains
\* ---------------------------------------------------------------------------

\* defaultJobOptions.attempts of the tool queue
Attempts == 3

\* `limit: 10` of the message-history query
HistoryLimit == 10

\* content fragments: the empty string and two distinguishable texts
Texts == {<<>>, <<"a">>, <<"b">>}

\* call ids the provider attaches to tool calls
CallIds == {<<"call", 1>>, <<"call", 2>>}

\* tool names the model may ask for; only the first is a row of mcp_tools
ToolNames == {"web_search", "no_such_tool"}

McpToolNames == {"web_search"}

\* argument buffers: a partial fragment, a complete object, and a buffer that
\* contains a closing brace but is not JSON
ArgStrings == {"{\"q\":", "{\"q\":1}", "{\"q\":}"}

\* messages of errors thrown inside a worker attempt: getClient returned null,
\* job.updateProgress was rejected
ThrowReasons == {"MCP server is not available", "updateProgress failed"}

\* errors executeTool returns as {success:false}
ToolErrors == {"Tool execution timed out"}

UserMessageId == "user-msg"

AssistantMessageId == "assistant-msg"

TerminalStatuses == {"completed", "error"}

\* the one registered MCP server
ServerId == "srv"

\* maxIdleTimeMs of the mcpServerManager singleton
MaxIdleTimeMs == 300000

\* sandbox.maxExecutionTimeMs: the default, and a server whose config allows
\* ten minutes
ExecutionTimes == {60000, 600000}

\* sandbox.maxToolCallsPerSession: unset (the check is skipped) or one call
Quotas == {0, 1}

\* sandbox.allowedDomains: no allowlist, or one allowed host
Allowlists == {{}, {"ok.test"}}

SandboxConfigs ==
  [networkEnabled : BOOLEAN, allowedDomains : Allowlists,
   maxToolCallsPerSession : Quotas, maxExecutionTimeMs : ExecutionTimes]

\* DEFAULT_SANDBOX as overridden by the singleton
DefaultSandbox ==
  [networkEnabled |-> FALSE, allowedDomains |-> {},
   maxToolCallsPerSession |-> 100, maxExecutionTimeMs |-> 60000]

\* argument values: a string is the sequence of its parts, an object holds one
\* string one level down
Str(parts) == [kind |-> "string", parts |-> parts]

Obj(parts) == [kind |-> "object", parts |-> parts]

\* Object.values(args) of the calls the model makes: no URL; a URL as the
\* second value; a URL inside a sentence; a URL inside a nested object; an
\* https URL of the allowed host
ArgSets ==
  {<<Str(<<"hello">>)>>,
   <<Str(<<"hello">>), Str(<<"http://", "evil.test">>)>>,
   <<Str(<<"see ", "http://", "evil.test">>)>>,
   <<Obj(<<"http://", "evil.test">>)>>,
   <<Str(<<"https://", "ok.test">>)>>}

\* model strings as <<prefix, rest>>
Models ==
  {<<"", "llama3">>, <<"gpt-", "4o">>, <<"openai/", "gpt-4o">>,
   <<"claude-", "3">>, <<"anthropic/", "claude-3">>, <<"ollama/", "gpt-4o">>}

\* apiKey arguments of enableCloudProvider
ApiKeys == {"", "sk-key"}

CloudProviders == {"openai", "anthropic"}

\* ---------------------------------------------------------------------------
\* Pure helpers
\* ---------------------------------------------------------------------------

\* JSON.parse succeeds on the string
JsonParses(s) == s = "{\"q\":1}"

\* the gateway's completion heuristic: the buffer contains a closing brace
HasClosingBrace(s) == s \in {"{\"q\":1}", "{\"q\":}"}

\* crypto.randomUUID() for the n-th ToolCall row
ToolCallId(n) == <<"tc", n>>

Range(s) == {s[i] : i \in 1..Len(s)}

RECURSIVE SelectContent(_)
\* the texts of the non-empty content chunks of a chunk sequence, in order
SelectContent(cs) ==
  IF cs = <<>> THEN <<>>
  ELSE IF Head(cs).type = "content" /\ Head(cs).content # <<>>
       THEN <<Head(cs).content>> \o SelectContent(Tail(cs))
       ELSE SelectContent(Tail(cs))

RECURSIVE Concat(_)
\* concatenation of a sequence of texts
Concat(ts) == IF ts = <<>> THEN <<>> ELSE Head(ts) \o Concat(Tail(ts))

\* chunk shapes of GatewayStreamChunk
ContentChunk(t) == [type |-> "content", content |-> t]

ToolCallChunk(id, name, args) ==
  [type |-> "tool_call", id |-> id, name |-> name, arguments |-> args,
   isComplete |-> HasClosingBrace(args)]

UsageChunk == [type |-> "usage"]

DoneChunk == [type |-> "done"]

ErrorChunk == [type |-> "error", code |-> "OLLAMA_ERROR"]

\* chunks the gateway yields once the upstream body is being read
BodyChunks ==
  {ContentChunk(t) : t \in Texts}
    \cup {ToolCallChunk(id, "web_search", a) : id \in CallIds, a \in ArgStrings}
    \cup {ToolCallChunk(<<"call", 1>>, "no_such_tool", a) :
            a \in {"{\"q\":", "{\"q\":1}"}}
    \cup {UsageChunk, DoneChunk}

\* ---------------------------------------------------------------------------
\* State
\* ---------------------------------------------------------------------------

VARIABLES
  sessionState,     \* "ok" | "no_session" | "no_agent": what the lookup finds
  foreignKeys,      \* the connection enforces foreign keys
  route,            \* "GET" (stream/route.ts) | "POST" (its POST variant)
  pc,               \* position of the streamConversation generator
  ending,           \* how the generator ended
  session,          \* the session row as read by the lookup
  aborted,          \* signal.aborted
  cancelled,        \* the response stream was cancelled by the client
  abortObserved,    \* the loop saw signal.aborted and broke out
  delivered,        \* chunks the gateway delivered, in order
  gwFailed,         \* the gateway failed (error event or exception)
  chunk,            \* the tool_call chunk being handled
  fullContent,      \* the accumulating buffer
  pendingToolCalls, \* call ids pushed by the loop
  frames,           \* SSE frames yielded by the generator
  msgs,             \* messages table: id -> row
  toolCallRows,     \* tool_calls table: id -> row
  messageCount,     \* chat_sessions.message_count
  totalMessages,    \* agents.total_messages
  jobs,             \* tool-execution queue: toolCallId -> job
  sandbox,          \* MCPSandboxConfig of the server's connection
  connections,      \* MCPServerManager.connections: server id -> connection
  serverStatus,     \* mcp_servers row: status and statusMessage
  connecting,       \* the connectServer call in progress
  calls,            \* the worker's tool calls: getClient, then executeTool
  dispatched,       \* client.callTool invocations on the current connection
  providers,        \* UnifiedGateway: openaiEnabled, anthropicEnabled, the keys
  upstreamCalls,    \* requests the gateway sent to a provider's API
  served,           \* streamCompletion calls made, with their first event
  requests,         \* chat requests on one session: position and the row read
  initialCount,     \* message_count of the session before the requests
  stream,           \* one streamCompletion call: the generator and its events
  store,            \* client chat store: isSending, error, stream, controller
  sends,            \* the sendMessage calls of the client
  connectors,       \* concurrent connectServer calls and their MCPClients
  context           \* the message list a request builds for the gateway

\* the connection manager's state
mcpVars == <<sandbox, connections, serverStatus, connecting, calls, dispatched>>

\* the gateway's provider state
gwVars == <<providers, upstreamCalls, served>>

\* several requests on one session
sessVars == <<requests, initialCount>>

\* the state of the models that run beside the request, the worker, the
\* connection manager and the provider gate
\* the client chat store
storeVars == <<store, sends>>

\* the models added beside the client store
extraVars == <<connectors, context>>

sideVars == <<sessVars, stream, storeVars, extraVars>>

vars == <<sessionState, foreignKeys, route, pc, ending, session, aborted,
          cancelled, abortObserved, delivered, gwFailed, chunk, fullContent,
          pendingToolCalls, frames, msgs, toolCallRows, messageCount,
          totalMessages, jobs, mcpVars, gwVars, sideVars>>

\* what a request and the worker's persistence steps never touch
envVars == <<sessionState, foreignKeys, route, mcpVars, gwVars, sideVars>>

dbVars == <<msgs, toolCallRows, messageCount, totalMessages>>

NoChunk == [type |-> "none"]

NoSession == [messageCount |-> 0, totalMessages |-> 0, found |-> FALSE]

\* a ToolExecutionResult, or the exception executeTool ended with
Failure(e) == [threw |-> FALSE, success |-> FALSE, error |-> e]

Success == [threw |-> FALSE, success |-> TRUE, error |-> "none"]

Thrown(e) == [threw |-> TRUE, success |-> FALSE, error |-> e]

NoResult == [threw |-> FALSE, success |-> FALSE, error |-> "pending"]

\* a call the worker has not made yet
IdleCall == [pc |-> "idle", args |-> <<>>, gen |-> 0, invoked |-> FALSE,
             result |-> NoResult]

\* no connectServer call is running
NotConnecting == [pc |-> "idle", result |-> "none", reason |-> "none", made |-> 0]

\* the request before its first step
RequestInit ==
  /\ pc = "getdb"
  /\ ending = "running"
  /\ session = NoSession
  /\ aborted = FALSE
  /\ cancelled = FALSE
  /\ abortObserved = FALSE
  /\ delivered = <<>>
  /\ gwFailed = FALSE
  /\ chunk = NoChunk
  /\ fullContent = <<>>
  /\ pendingToolCalls = <<>>
  /\ frames = <<>>
  /\ msgs = <<>>
  /\ toolCallRows = <<>>
  /\ messageCount = 0
  /\ totalMessages = 0
  /\ jobs = <<>>

\* new MCPServerManager(): an empty connection map
ManagerInit ==
  /\ connections = <<>>
  /\ serverStatus = [status |-> "disconnected", message |-> "none"]
  /\ connecting = NotConnecting
  /\ calls = [c \in 1..MaxCalls |-> IdleCall]
  /\ dispatched = 0

\* a request that has not been received
NoRequest == [pc |-> "idle", messageCount |-> 0, totalMessages |-> 0]

\* no request has reached the session yet
SessionsInit ==
  /\ requests = [r \in 1..MaxConcurrent |-> NoRequest]
  /\ initialCount = 0

\* an id that is absent from a tool-call delta
NoId == <<"none", 0>>

\* streamCompletion has not been called.  `failure`, `received` and `announced`
\* record what the provider did: how the transport failed, the tool-call
\* deltas sent, and the call id the provider announced last; `signal` is
\* request.signal.aborted
NoStream ==
  [provider |-> "none", pc |-> "idle", events |-> <<>>, threw |-> FALSE,
   fetches |-> 0, failure |-> "none", buffers |-> <<>>, received |-> <<>>,
   announced |-> NoId, now |-> 0, signal |-> FALSE]

StreamInit == stream = NoStream

\* chatStore.ts, lines 137-142
initialStreamState ==
  [isStreaming |-> FALSE, messageId |-> "null", sessionId |-> "null",
   error |-> "null"]

\* a sendMessage call that was not made
NoSend == [pc |-> "idle", aborted |-> FALSE, read |-> 0, last |-> "none",
           outcome |-> "none"]

\* the store as created (lines 144-152), with no AbortController
StoreInit ==
  /\ store = [isSending |-> FALSE, error |-> "null",
              stream |-> initialStreamState, controller |-> 0,
              messages |-> <<>>]
  /\ sends = [n \in 1..MaxSends |-> NoSend]

\* a connectServer call that was not made; `open` says its MCPClient is
\* connected to the server
NoConnector == [pc |-> "idle", open |-> FALSE]

ConnectorsInit == connectors = [k \in 1..MaxConnectors |-> NoConnector]

\* rows of the session's messages, oldest first: user and assistant messages
\* in turn, one row per second, the oldest being of role `first`
PriorRows(n, first) ==
  [i \in 1..n |-> [id |-> i, at |-> i,
                   role |-> IF i % 2 = 1 THEN first
                            ELSE IF first = "user" THEN "assistant" ELSE "user"]]

\* a request that has not built its context, in a session without messages
NoContext == [pc |-> "saveUser", rows |-> <<>>, history |-> <<>>,
              messages |-> <<>>]

ContextInit == context = NoContext

\* the side models at rest
SideInit ==
  SessionsInit /\ StreamInit /\ StoreInit /\ ConnectorsInit /\ ContextInit

\* new UnifiedGateway(): no cloud provider is enabled
GatewayInit ==
  /\ providers = [openaiEnabled |-> FALSE, openaiClient |-> FALSE,
                  anthropicEnabled |-> FALSE, anthropicKey |-> ""]
  /\ upstreamCalls = 0
  /\ served = <<>>

Init ==
  /\ sessionState \in {"ok", "no_session", "no_agent"}
  /\ foreignKeys \in BOOLEAN
  /\ route \in {"GET", "POST"}
  /\ RequestInit
  /\ sandbox = DefaultSandbox
  /\ ManagerInit
  /\ GatewayInit
  /\ SideInit

\* ---------------------------------------------------------------------------
\* SSE frames and the generator's yield
\* ---------------------------------------------------------------------------

StartFrame == [type |-> "start", payload |-> AssistantMessageId]

ContentFrame(t) == [type |-> "content", payload |-> t]

ToolCallFrame(c) == [type |-> "tool_call", payload |-> <<c.id, c.arguments>>]

ToolPendingFrame(id) == [type |-> "tool_pending", payload |-> id]

ErrorFrame(code) == [type |-> "error", payload |-> code]

CompleteFrame == [type |-> "complete", payload |-> AssistantMessageId]

\* a generator that hands the newest frame out first
EmitFrameReversed(fs, f) == <<f>> \o fs

\* frames in emission order
EmitFrame(fs, f) == Append(fs, f)

\* `yield f`: the frame is handed to createSSEResponse's loop.  Once the
\* response stream was cancelled, controller.enqueue throws, the for-await
\* loop calls generator.return(), and the generator never resumes.
Yield(f, nextPc, nextEnding) ==
  /\ frames' = EmitFrame(frames, f)
  /\ IF cancelled
     THEN /\ pc' = "done"
          /\ ending' = IF nextPc = "done" THEN nextEnding ELSE "closed"
     ELSE /\ pc' = nextPc
          /\ ending' = nextEnding

\* a catch block that reports the error and falls through to finalization
CaughtFallsThrough == Yield(ErrorFrame("STREAM_ERROR"), "fin_msg", "running")

\* the catch block of streamConversation: one STREAM_ERROR frame, then the end
Caught == Yield(ErrorFrame("STREAM_ERROR"), "done", "caught")

\* ---------------------------------------------------------------------------
\* Persistence operations
\* ---------------------------------------------------------------------------

MessageRow(role, content, ids) ==
  [role |-> role, content |-> content, isComplete |-> TRUE,
   hasToolCalls |-> ids # <<>>, toolCallIds |-> ids,
   toolCallStatus |-> "none", toolCallError |-> "none"]

\* db.insert(messages).values({...})
InsertMessage(table, id, row) == table @@ (id :> row)

ToolCallRow(c) ==
  [messageId |-> AssistantMessageId, toolName |-> c.name, status |-> "pending",
   error |-> "none", hasResult |-> FALSE]

\* an insert that is never issued
InsertToolCallSkipped(table, id, row) == table

\* db.insert(toolCalls).values({...})
InsertToolCall(table, id, row) == table @@ (id :> row)

\* the FOREIGN KEY (message_id) REFERENCES messages(id) of tool_calls
ForeignKeyFails(messageId) == foreignKeys /\ messageId \notin DOMAIN msgs

\* no metadata was read
NoMeta == <<>>

\* getToolQueue().add("execute-tool", data)
AddJob(queue, id) ==
  queue @@ (id :> [state |-> "waiting", attemptsMade |-> 0, wpc |-> "idle",
                   result |-> "none", meta |-> NoMeta])

\* ---------------------------------------------------------------------------
\* streamConversation
\* ---------------------------------------------------------------------------

reqLocals == <<session, delivered, gwFailed, chunk, fullContent,
               pendingToolCalls, abortObserved>>

\* line 99: the database handle is obtained before the try block
GetDB ==
  /\ pc = "getdb"
  /\ pc' = "lookup"
  /\ UNCHANGED <<envVars, ending, aborted, cancelled, reqLocals, frames,
                 dbVars, jobs>>

\* getDB() throws: the generator rejects outside its try block, and
\* createSSEResponse errors the stream without any frame
GetDBThrows ==
  /\ pc = "getdb"
  /\ pc' = "done"
  /\ ending' = "threw"
  /\ UNCHANGED <<envVars, aborted, cancelled, reqLocals, frames, dbVars, jobs>>

\* a check that forgets the agent
SessionFoundIgnoringAgent(state) == state # "no_session"

\* line 111: `!session || !session.agent` is false
SessionFound(state) == state \notin {"no_session", "no_agent"}

\* lines 104-117: session lookup, SESSION_NOT_FOUND on a missing session/agent
Lookup ==
  /\ pc = "lookup"
  /\ IF SessionFound(sessionState)
     THEN /\ session' = [messageCount |-> messageCount,
                         totalMessages |-> totalMessages, found |-> TRUE]
          /\ pc' = "saveUser"
          /\ UNCHANGED <<frames, ending>>
     ELSE /\ Yield(ErrorFrame("SESSION_NOT_FOUND"), "done", "not_found")
          /\ UNCHANGED session
  /\ UNCHANGED <<envVars, aborted, cancelled, abortObserved, delivered,
                 gwFailed, chunk, fullContent, pendingToolCalls, dbVars, jobs>>

\* lines 119-128: the user message is persisted
SaveUserMessage ==
  /\ pc = "saveUser"
  /\ msgs' = InsertMessage(msgs, UserMessageId, MessageRow("user", <<"u">>, <<>>))
  /\ pc' = "context"
  /\ UNCHANGED <<envVars, ending, aborted, cancelled, reqLocals, frames,
                 toolCallRows, messageCount, totalMessages, jobs>>

\* lines 130-151: agent tools, system prompt, message history
LoadContext ==
  /\ pc = "context"
  /\ pc' = "start"
  /\ UNCHANGED <<envVars, ending, aborted, cancelled, reqLocals, frames,
                 dbVars, jobs>>

\* lines 153-160: the start frame
YieldStart ==
  /\ pc = "start"
  /\ Yield(StartFrame, "next", "running")
  /\ UNCHANGED <<envVars, aborted, cancelled, reqLocals, dbVars, jobs>>

\* a tool_call chunk that would create a row is delivered only below the cap
WithinBounds(c) ==
  /\ Len(delivered) < MaxChunks
  /\ (c.type = "tool_call" /\ c.name \in McpToolNames)
       => Cardinality(DOMAIN toolCallRows) < MaxToolCalls

\* lines 183-269: one iteration of `for await (const chunk of stream)` for a
\* chunk of the upstream body
GatewayChunk(c) ==
  /\ pc = "next"
  /\ WithinBounds(c)
  /\ delivered' = Append(delivered, c)
  /\ IF aborted
     THEN /\ abortObserved' = TRUE
          /\ pc' = "fin_msg"
          /\ UNCHANGED <<frames, ending, fullContent, pendingToolCalls, chunk>>
     ELSE /\ UNCHANGED abortObserved
          /\ CASE c.type = "content" /\ c.content # <<>> ->
                    /\ fullContent' = fullContent \o c.content
                    /\ Yield(ContentFrame(c.content), "next", "running")
                    /\ UNCHANGED <<pendingToolCalls, chunk>>
               [] c.type = "tool_call" ->
                    /\ pendingToolCalls' = Append(pendingToolCalls, c.id)
                    /\ chunk' = c
                    /\ Yield(ToolCallFrame(c), "tc_lookup", "running")
                    /\ UNCHANGED fullContent
               [] OTHER ->
                    /\ UNCHANGED <<frames, pc, ending, fullContent,
                                   pendingToolCalls, chunk>>
  /\ UNCHANGED <<envVars, session, aborted, cancelled, gwFailed, dbVars, jobs>>

\* the gateway's only error events precede the body (non-2xx response, no body
\* reader, provider not enabled or not implemented): lines 262-264
GatewayErrorEvent ==
  /\ pc = "next"
  /\ delivered = <<>>
  /\ delivered' = <<ErrorChunk>>
  /\ gwFailed' = TRUE
  /\ IF aborted
     THEN /\ abortObserved' = TRUE
          /\ pc' = "fin_msg"
          /\ UNCHANGED <<frames, ending>>
     ELSE /\ UNCHANGED abortObserved
          /\ Yield(ErrorFrame(ErrorChunk.code), "done", "gw_error")
  /\ UNCHANGED <<envVars, session, aborted, cancelled, chunk, fullContent,
                 pendingToolCalls, dbVars, jobs>>

\* fetch or reader.read() rejects (transport failure, aborted request): the
\* exception leaves the gateway generator and lands in the catch block
GatewayThrows ==
  /\ pc = "next"
  /\ gwFailed' = TRUE
  /\ Caught
  /\ UNCHANGED <<envVars, session, aborted, cancelled, abortObserved, delivered,
                 chunk, fullContent, pendingToolCalls, dbVars, jobs>>

\* the gateway generator returns: the loop ends
GatewayEnds ==
  /\ pc = "next"
  /\ pc' = "fin_msg"
  /\ UNCHANGED <<envVars, ending, aborted, cancelled, reqLocals, frames,
                 dbVars, jobs>>

\* lines 221-225: db.query.mcpTools.findFirst by name
ToolLookup ==
  /\ pc = "tc_lookup"
  /\ pc' = IF chunk.name \in McpToolNames THEN "tc_insert" ELSE "next"
  /\ UNCHANGED <<envVars, ending, aborted, cancelled, reqLocals, frames,
                 dbVars, jobs>>

\* JSON.parse(chunk.toolCall.arguments || "{}") throws in the GET handler; the
\* POST handler falls back to {} in its own try/catch
ParseThrows(c) == route = "GET" /\ ~JsonParses(c.arguments)

\* lines 226-234: the ToolCall row is inserted in status pending
InsertToolCallRow ==
  /\ pc = "tc_insert"
  /\ IF ParseThrows(chunk) \/ ForeignKeyFails(AssistantMessageId)
     THEN /\ Caught
          /\ UNCHANGED toolCallRows
     ELSE /\ toolCallRows' =
               InsertToolCall(toolCallRows,
                              ToolCallId(Cardinality(DOMAIN toolCallRows) + 1),
                              ToolCallRow(chunk))
          /\ pc' = "tc_submit"
          /\ UNCHANGED <<frames, ending>>
  /\ UNCHANGED <<envVars, aborted, cancelled, reqLocals, msgs, messageCount,
                 totalMessages, jobs>>

\* the id of the row the request inserted last
CurrentToolCallId == ToolCallId(Cardinality(DOMAIN toolCallRows))

\* lines 236-244: the job is submitted
SubmitJob ==
  /\ pc = "tc_submit"
  /\ jobs' = AddJob(jobs, CurrentToolCallId)
  /\ pc' = IF route = "GET" THEN "tc_pending" ELSE "next"
  /\ UNCHANGED <<envVars, ending, aborted, cancelled, reqLocals, frames, dbVars>>

\* lines 246-257: the tool_pending frame (GET handler only)
YieldToolPending ==
  /\ pc = "tc_pending"
  /\ Yield(ToolPendingFrame(CurrentToolCallId), "next", "running")
  /\ UNCHANGED <<envVars, aborted, cancelled, reqLocals, dbVars, jobs>>

\* lines 271-283: the assistant message is persisted as complete
SaveAssistantMessage ==
  /\ pc = "fin_msg"
  /\ msgs' = InsertMessage(msgs, AssistantMessageId,
                           MessageRow("assistant", fullContent, pendingToolCalls))
  /\ pc' = "fin_session"
  /\ UNCHANGED <<envVars, ending, aborted, cancelled, reqLocals, frames,
                 toolCallRows, messageCount, totalMessages, jobs>>

\* lines 285-292: session counters
UpdateSession ==
  /\ pc = "fin_session"
  /\ messageCount' = session.messageCount + 2
  /\ pc' = "fin_agent"
  /\ UNCHANGED <<envVars, ending, aborted, cancelled, reqLocals, frames, msgs,
                 toolCallRows, totalMessages, jobs>>

\* lines 294-301: agent statistics
UpdateAgent ==
  /\ pc = "fin_agent"
  /\ totalMessages' = session.totalMessages + 1
  /\ pc' = "fin_complete"
  /\ UNCHANGED <<envVars, ending, aborted, cancelled, reqLocals, frames, msgs,
                 toolCallRows, messageCount, jobs>>

\* lines 303-310: the complete frame
YieldComplete ==
  /\ pc = "fin_complete"
  /\ Yield(CompleteFrame, "done", "complete")
  /\ UNCHANGED <<envVars, aborted, cancelled, reqLocals, dbVars, jobs>>

\* the awaits of the try block that reach the database or the queue
AwaitPoints == {"lookup", "saveUser", "context", "tc_lookup", "tc_insert",
                "tc_submit", "fin_msg", "fin_session", "fin_agent"}

\* lines 312-326: a persistence or queue call rejects inside the try block
StepThrows ==
  /\ pc \in AwaitPoints
  /\ Caught
  /\ UNCHANGED <<envVars, aborted, cancelled, reqLocals, dbVars, jobs>>

\* lines 75-87: the client disconnects; request.signal fires, and the response
\* stream may be cancelled as well
ClientAbort ==
  /\ pc # "done"
  /\ ~aborted
  /\ aborted' = TRUE
  /\ cancelled' \in BOOLEAN
  /\ UNCHANGED <<envVars, pc, ending, reqLocals, frames, dbVars, jobs>>

Request ==
  \/ GetDB \/ GetDBThrows \/ Lookup \/ SaveUserMessage \/ LoadContext
  \/ YieldStart
  \/ \E c \in BodyChunks : GatewayChunk(c)
  \/ GatewayErrorEvent \/ GatewayThrows \/ GatewayEnds
  \/ ToolLookup \/ InsertToolCallRow \/ SubmitJob \/ YieldToolPending
  \/ SaveAssistantMessage \/ UpdateSession \/ UpdateAgent \/ YieldComplete
  \/ StepThrows \/ ClientAbort

\* ---------------------------------------------------------------------------
\* Tool worker: processToolJob and its database helpers
\* ---------------------------------------------------------------------------

reqVars == <<pc, ending, session, aborted, cancelled, abortObserved, delivered,
             gwFailed, chunk, fullContent, pendingToolCalls, frames>>

\* updateToolCallStatus: UPDATE tool_calls SET status WHERE id
SetStatus(table, id, status) ==
  IF id \in DOMAIN table
  THEN [table EXCEPT ![id].status = status]
  ELSE table

\* a success write issued as an INSERT of a fresh row
WriteSuccessAsInsert(table, id) ==
  table @@ (<<"tc", 0>> :> [messageId |-> AssistantMessageId,
                            toolName |-> "web_search", status |-> "completed",
                            error |-> "none", hasResult |-> TRUE])

\* updateToolCallSuccess: UPDATE tool_calls SET status='completed', result WHERE id
WriteSuccess(table, id) ==
  IF id \in DOMAIN table
  THEN [table EXCEPT ![id].status = "completed", ![id].hasResult = TRUE]
  ELSE table

\* an error write that records the message and leaves the status alone
WriteErrorKeepsStatus(table, id, message) ==
  IF id \in DOMAIN table
  THEN [table EXCEPT ![id].error = message]
  ELSE table

\* updateToolCallError: UPDATE tool_calls SET status='error', error WHERE id
WriteError(table, id, message) ==
  IF id \in DOMAIN table
  THEN [table EXCEPT ![id].status = "error", ![id].error = message]
  ELSE table

\* updateMessageToolStatus, lines 491-503: the metadata read from the message
\* row, amended
AmendMeta(row, id, status, message) ==
  [row EXCEPT
     !.toolCallIds = IF id \in Range(@) THEN @ ELSE Append(@, id),
     !.hasToolCalls = TRUE,
     !.toolCallStatus = status,
     !.toolCallError = IF message # "none" THEN message ELSE @]

\* updateMessageToolStatus, lines 505-508: UPDATE messages SET metadata WHERE id
WriteMeta(table, messageId, meta) ==
  IF messageId \in DOMAIN table
  THEN [table EXCEPT ![messageId].toolCallIds = meta.toolCallIds,
                     ![messageId].hasToolCalls = meta.hasToolCalls,
                     ![messageId].toolCallStatus = meta.toolCallStatus,
                     ![messageId].toolCallError = meta.toolCallError]
  ELSE table

\* a queue that gives up one attempt early
AfterAttemptOffByOne(threw, attemptsMade) ==
  IF ~threw THEN "completed"
  ELSE IF attemptsMade < Attempts - 1 THEN "waiting" ELSE "failed"

\* the state BullMQ gives a job when its processor returned or threw
AfterAttempt(threw, attemptsMade) ==
  IF ~threw THEN "completed"
  ELSE IF attemptsMade < Attempts THEN "waiting" ELSE "failed"

\* the attempt of job j ends: the processor returns (lines 347-367) or re-throws
\* (line 381) and the queue retries until the attempts are used up
EndAttempt(job) ==
  [job EXCEPT !.attemptsMade = @ + 1,
              !.state = AfterAttempt(job.wpc \in {"catchMsgRead", "catchMsgWrite"},
                                     job.attemptsMade + 1),
              !.wpc = "idle",
              !.meta = NoMeta]

\* the queue hands a waiting job to the worker (the job lock keeps every job
\* on one worker at a time) and step 1 marks the row running: lines 287-289
WorkerStartsAttempt(j) ==
  /\ jobs[j].state = "waiting"
  /\ toolCallRows' = SetStatus(toolCallRows, j, "running")
  /\ jobs' = [jobs EXCEPT ![j].state = "active", ![j].wpc = "run",
                          ![j].result = "none"]
  /\ UNCHANGED <<envVars, reqVars, msgs, messageCount, totalMessages>>

\* lines 291-331: getClient and executeTool.  The outcome is the structured
\* result executeTool returns ("success" or an error), or an exception thrown
\* on the way: getClient returned null (line 301), a progress update rejected
WorkerRunsTool(j, outcome) ==
  /\ jobs[j].wpc = "run"
  /\ jobs' = [jobs EXCEPT
                ![j].result = outcome,
                ![j].wpc = IF outcome \in ThrowReasons THEN "catchWrite" ELSE "write"]
  /\ UNCHANGED <<envVars, reqVars, dbVars>>

\* lines 333-338 and 352-357 (result), 369-377 (catch block): the outcome is
\* written to the row
WorkerWritesOutcome(j) ==
  /\ jobs[j].wpc \in {"write", "catchWrite"}
  /\ toolCallRows' =
       IF jobs[j].result = "success"
       THEN WriteSuccess(toolCallRows, j)
       ELSE WriteError(toolCallRows, j, jobs[j].result)
  /\ jobs' = [jobs EXCEPT
                ![j].wpc = IF jobs[j].wpc = "write" THEN "msgRead" ELSE "catchMsgRead"]
  /\ UNCHANGED <<envVars, reqVars, msgs, messageCount, totalMessages>>

\* updateMessageToolStatus, lines 484-503: the parent message is read; without
\* a row the helper returns and the attempt ends
WorkerReadsMessage(j) ==
  /\ jobs[j].wpc \in {"msgRead", "catchMsgRead"}
  /\ LET mid == toolCallRows[j].messageId IN
       IF mid \in DOMAIN msgs
       THEN jobs' = [jobs EXCEPT
                       ![j].meta =
                          AmendMeta(msgs[mid], j,
                                    IF jobs[j].result = "success"
                                    THEN "completed" ELSE "error",
                                    IF jobs[j].result = "success"
                                    THEN "none" ELSE jobs[j].result),
                       ![j].wpc = IF jobs[j].wpc = "msgRead"
                                  THEN "msgWrite" ELSE "catchMsgWrite"]
       ELSE jobs' = [jobs EXCEPT ![j] = EndAttempt(jobs[j])]
  /\ UNCHANGED <<envVars, reqVars, dbVars>>

\* updateMessageToolStatus, lines 505-508: the metadata is written back and the
\* attempt ends
WorkerWritesMessage(j) ==
  /\ jobs[j].wpc \in {"msgWrite", "catchMsgWrite"}
  /\ msgs' = WriteMeta(msgs, toolCallRows[j].messageId, jobs[j].meta)
  /\ jobs' = [jobs EXCEPT ![j] = EndAttempt(jobs[j])]
  /\ UNCHANGED <<envVars, reqVars, toolCallRows, messageCount, totalMessages>>

\* what getClient and executeTool can come to
Outcomes == {"success"} \cup ToolErrors \cup ThrowReasons

WorkerStep(j) ==
  \/ WorkerStartsAttempt(j)
  \/ \E o \in Outcomes : WorkerRunsTool(j, o)
  \/ WorkerWritesOutcome(j)
  \/ WorkerReadsMessage(j)
  \/ WorkerWritesMessage(j)

Next ==
  \/ Request
  \/ \E j \in DOMAIN jobs : WorkerStartsAttempt(j)
  \/ \E j \in DOMAIN jobs, o \in Outcomes : WorkerRunsTool(j, o)
  \/ \E j \in DOMAIN jobs : WorkerWritesOutcome(j)
  \/ \E j \in DOMAIN jobs : WorkerReadsMessage(j)
  \/ \E j \in DOMAIN jobs : WorkerWritesMessage(j)

Spec == Init /\ [][Next]_vars

\* the worker keeps running: every step a job's attempt can take is
\* eventually taken
JobIds == {ToolCallId(n) : n \in 1..MaxToolCalls}

WorkerFairness ==
  \A j \in JobIds : WF_vars(j \in DOMAIN jobs /\ WorkerStep(j))

\* the configurations in which the GET handler submits jobs: the session and
\* its agent exist and the ToolCall insert passes
LiveInit ==
  /\ Init
  /\ sessionState = "ok"
  /\ ~foreignKeys
  /\ route = "GET"

LiveSpec == LiveInit /\ [][Next]_vars /\ WorkerFairness

\* ---------------------------------------------------------------------------
\* MCPServerManager: connect protocol, sandboxed executeTool, idle eviction
\* ---------------------------------------------------------------------------

\* what the connection manager never touches
coreVars == <<sessionState, foreignKeys, route, reqVars, dbVars, jobs, gwVars,
              sideVars>>

\* this.connections.get(serverId) finds an entry
Connected == ServerId \in DOMAIN connections

\* lines 471-478: the entry connectServer stores; gen tells the connection
\* objects apart, stale says lastUsedAt is older than maxIdleTimeMs
NewConnection(gen) == [gen |-> gen, toolCallCount |-> 0, stale |-> FALSE]

\* lines 571-580: the quota check; an unset (or zero) quota skips it
QuotaExhausted(conn, sb) ==
  /\ sb.maxToolCallsPerSession # 0
  /\ conn.toolCallCount >= sb.maxToolCallsPerSession

\* lines 584-588: a top-level string value that starts with a URL scheme
IsUrlString(v) ==
  v.kind = "string" /\ v.parts[1] \in {"http://", "https://"}

\* lines 583-597: the network check
NetworkBlocked(sb, args) ==
  ~sb.networkEnabled /\ \E i \in 1..Len(args) : IsUrlString(args[i])

\* lines 600-617: the allowlist check on new URL(value).hostname
DomainBlocked(sb, args) ==
  /\ sb.allowedDomains # {}
  /\ \E i \in 1..Len(args) :
       IsUrlString(args[i]) /\ args[i].parts[2] \notin sb.allowedDomains

\* the checks with the network check moved in front of the quota check
FirstViolationNetworkFirst(conn, sb, args) ==
  IF NetworkBlocked(sb, args) THEN "Network access is disabled for this server"
  ELSE IF QuotaExhausted(conn, sb) THEN "Tool call limit exceeded"
  ELSE IF DomainBlocked(sb, args) THEN "Domain is not in the allowed list"
  ELSE "none"

\* lines 571-617: the error of the first check that rejects the call
FirstViolation(conn, sb, args) ==
  IF QuotaExhausted(conn, sb) THEN "Tool call limit exceeded"
  ELSE IF NetworkBlocked(sb, args) THEN "Network access is disabled for this server"
  ELSE IF DomainBlocked(sb, args) THEN "Domain is not in the allowed list"
  ELSE "none"

\* a catch block that lets the error escape
CatchRethrows(e) == Thrown(e)

\* lines 648-656: the catch block of executeTool
CatchBlock(e) == Failure(e)

\* a race the timer's rejection is no part of
OnTimeoutIgnored(call) == call

\* lines 623-634: the timer's rejection wins Promise.race
OnTimeout(call) ==
  [call EXCEPT !.pc = "returned",
               !.result = CatchBlock("Tool execution timed out")]

\* getClient, lines 513-541, for a server that has a connection: lastUsedAt is
\* refreshed and the job goes on to executeTool with its arguments
GetClient(c, a) ==
  /\ calls[c].pc = "idle"
  /\ IF c = 1 THEN TRUE ELSE calls[c - 1].pc # "idle"
  /\ Connected
  /\ connections' = [connections EXCEPT ![ServerId].stale = FALSE]
  /\ calls' = [calls EXCEPT ![c].pc = "ready", ![c].args = a]
  /\ UNCHANGED <<coreVars, sandbox, serverStatus, connecting, dispatched>>

\* executeTool, lines 560-638: everything up to `await Promise.race` runs in
\* one turn: the lookup, the three checks, and the call to client.callTool
ExecuteTool(c) ==
  /\ calls[c].pc = "ready"
  /\ IF ~Connected
     THEN /\ calls' = [calls EXCEPT
                         ![c].pc = "returned",
                         ![c].result = Failure("Server is not connected")]
          /\ UNCHANGED dispatched
     ELSE LET v == FirstViolation(connections[ServerId], sandbox, calls[c].args)
          IN IF v # "none"
             THEN /\ calls' = [calls EXCEPT ![c].pc = "returned",
                                            ![c].result = Failure(v)]
                  /\ UNCHANGED dispatched
             ELSE /\ calls' = [calls EXCEPT
                                 ![c].pc = "racing",
                                 ![c].invoked = TRUE,
                                 ![c].gen = connections[ServerId].gen]
                  /\ dispatched' = dispatched + 1
  /\ UNCHANGED <<coreVars, sandbox, connections, serverStatus, connecting>>

\* lines 634-646: callTool settled first, a tool failure being a result of its own catch block;
\* the counter and lastUsedAt of the connection object the call holds are
\* updated, whatever the result
ToolSettles(c, r) ==
  /\ calls[c].pc = "racing"
  /\ calls' = [calls EXCEPT ![c].pc = "returned", ![c].result = r]
  /\ IF Connected /\ connections[ServerId].gen = calls[c].gen
     THEN connections' = [connections EXCEPT
                            ![ServerId].toolCallCount = @ + 1,
                            ![ServerId].stale = FALSE]
     ELSE UNCHANGED connections
  /\ UNCHANGED <<coreVars, sandbox, serverStatus, connecting, dispatched>>

\* lines 623-628, 648-656: the maxExecutionTimeMs timer fires first
TimerFires(c) ==
  /\ calls[c].pc = "racing"
  /\ calls' = [calls EXCEPT ![c] = OnTimeout(calls[c])]
  /\ UNCHANGED <<coreVars, sandbox, connections, serverStatus, connecting,
                 dispatched>>

\* time passes: lastUsedAt becomes older than maxIdleTimeMs.  A call in flight
\* was started after lastUsedAt was refreshed and ends within
\* maxExecutionTimeMs, so it can outlast the idle threshold only when the
\* server's sandbox allows more than maxIdleTimeMs
IdleExpires ==
  /\ Connected
  /\ ~connections[ServerId].stale
  /\ (\E c \in 1..MaxCalls : calls[c].pc = "racing")
       => sandbox.maxExecutionTimeMs > MaxIdleTimeMs
  /\ connections' = [connections EXCEPT ![ServerId].stale = TRUE]
  /\ UNCHANGED <<coreVars, sandbox, serverStatus, connecting, calls, dispatched>>

\* lines 764-780 and 500-508: the sweep finds the connection idle and
\* disconnects it: client.disconnect(), connections.delete, status update
CleanupIdleConnections ==
  /\ Connected
  /\ connections[ServerId].stale
  /\ connections' = <<>>
  /\ serverStatus' = [status |-> "disconnected", message |-> "none"]
  /\ UNCHANGED <<coreVars, sandbox, connecting, calls, dispatched>>

\* lines 448-453: connectServer for a server that has an entry refreshes
\* lastUsedAt (a step only when lastUsedAt was stale)
ConnectExisting ==
  /\ connecting.pc = "idle"
  /\ Connected
  /\ connections[ServerId].stale
  /\ connections' = [connections EXCEPT ![ServerId].stale = FALSE]
  /\ UNCHANGED <<coreVars, sandbox, serverStatus, connecting, calls, dispatched>>

\* lines 455-468: no entry; the client is created and client.connect() is
\* awaited (from getClient or from POST /api/mcp/servers)
ConnectServerBegins ==
  /\ connecting.pc = "idle"
  /\ ~Connected
  /\ connecting.made < MaxConnects
  /\ connecting' = [pc |-> "handshake", result |-> "none", reason |-> "none",
                    made |-> connecting.made + 1]
  /\ UNCHANGED <<coreVars, sandbox, connections, serverStatus, calls, dispatched>>

\* lines 487-494: the catch block of connectServer
ConnectFailed(reason) ==
  /\ serverStatus' = [status |-> "error", message |-> reason]
  /\ connecting' = [connecting EXCEPT !.pc = "idle", !.result = "error",
                                      !.reason = reason]

\* lines 469-478: the handshake succeeded and the connection is stored
HandshakeSucceeds ==
  /\ connecting.pc = "handshake"
  /\ connections' = (ServerId :> NewConnection(connecting.made))
  /\ dispatched' = 0
  /\ connecting' = [connecting EXCEPT !.pc = "status"]
  /\ UNCHANGED <<coreVars, sandbox, serverStatus, calls>>

\* client.connect() rejects: transport creation, handshake or its timeout
HandshakeFails ==
  /\ connecting.pc = "handshake"
  /\ ConnectFailed("Connection timed out")
  /\ UNCHANGED <<coreVars, sandbox, connections, calls, dispatched>>

\* lines 480-481: updateServerStatus(server.id, "connected")
StatusConnected ==
  /\ connecting.pc = "status"
  /\ serverStatus' = [status |-> "connected", message |-> "none"]
  /\ connecting' = [connecting EXCEPT !.pc = "sync"]
  /\ UNCHANGED <<coreVars, sandbox, connections, calls, dispatched>>

\* lines 483-486: syncServerTools returned
SyncSucceeds ==
  /\ connecting.pc = "sync"
  /\ Connected
  /\ connecting' = [connecting EXCEPT !.pc = "idle", !.result = "connected"]
  /\ UNCHANGED <<coreVars, sandbox, connections, serverStatus, calls, dispatched>>

\* syncServerTools throws: the entry is gone (line 665), listTools timed out or
\* a catalog write failed (lines 704-707)
SyncFails ==
  /\ connecting.pc = "sync"
  /\ ConnectFailed(IF Connected THEN "Tool listing timed out"
                   ELSE "Server is not connected")
  /\ UNCHANGED <<coreVars, sandbox, connections, calls, dispatched>>

\* results client.callTool comes back with
ToolResults == {Success, Failure("Tool failed")}

McpNext ==
  \/ \E c \in 1..MaxCalls, a \in ArgSets : GetClient(c, a)
  \/ \E c \in 1..MaxCalls : ExecuteTool(c)
  \/ \E c \in 1..MaxCalls, r \in ToolResults : ToolSettles(c, r)
  \/ \E c \in 1..MaxCalls : TimerFires(c)
  \/ IdleExpires
  \/ CleanupIdleConnections
  \/ ConnectExisting
  \/ ConnectServerBegins
  \/ HandshakeSucceeds
  \/ HandshakeFails
  \/ StatusConnected
  \/ SyncSucceeds
  \/ SyncFails

\* the manager on its own, for every sandbox configuration
McpInit ==
  /\ sessionState = "ok"
  /\ foreignKeys = FALSE
  /\ route = "GET"
  /\ RequestInit
  /\ sandbox \in SandboxConfigs
  /\ ManagerInit
  /\ GatewayInit
  /\ SideInit

McpSpec == McpInit /\ [][McpNext]_vars

\* setTimeout fires: a timer that was set is not held back forever
TimerFairness == \A c \in 1..MaxCalls : WF_vars(TimerFires(c))

McpLiveSpec == McpSpec /\ TimerFairness

\* ---------------------------------------------------------------------------
\* UnifiedGateway: provider selection and the BYOK gate
\* ---------------------------------------------------------------------------

\* detectProvider: the provider is derived from the model string's prefix
DetectProvider(model) ==
  IF model[1] \in {"gpt-", "openai/"} THEN "openai"
  ELSE IF model[1] \in {"claude-", "anthropic/"} THEN "anthropic"
  ELSE "ollama"

\* completion requests: a model string, and optionally an explicit provider
Requests ==
  {[model |-> m, provider |-> "none"] : m \in Models}
    \cup {[model |-> <<"", "llama3">>, provider |-> p] : p \in CloudProviders}

\* request.provider ?? this.detectProvider(request.model)
RoutedTo(req) ==
  IF req.provider # "none" THEN req.provider ELSE DetectProvider(req.model)

\* isProviderAvailable
ProviderEnabled(ps, p) ==
  CASE p = "openai" -> ps.openaiEnabled
    [] p = "anthropic" -> ps.anthropicEnabled
    [] OTHER -> TRUE

\* enableCloudProvider: an empty key changes nothing
EnableCloudProvider(p, key) ==
  /\ providers' =
       IF key = "" THEN providers
       ELSE IF p = "openai"
            THEN [providers EXCEPT !.openaiClient = TRUE, !.openaiEnabled = TRUE]
            ELSE [providers EXCEPT !.anthropicKey = key, !.anthropicEnabled = TRUE]
  /\ UNCHANGED <<sessionState, foreignKeys, route, reqVars, dbVars, jobs,
                 mcpVars, sideVars, upstreamCalls, served>>

\* the first event of streamCompletion for a provider: the upstream request is
\* made, or an error event is yielded without one
StreamOutcome(ps, p) ==
  CASE p = "ollama" -> "upstream"
    [] p = "openai" ->
         IF ~ps.openaiClient \/ ~ps.openaiEnabled
         THEN "OPENAI_NOT_ENABLED" ELSE "upstream"
    [] OTHER -> "NOT_IMPLEMENTED"

\* complete() for a provider: the upstream request is made, or an Error
\* without a code is thrown
CompleteOutcome(ps, p) ==
  CASE p = "ollama" -> "upstream"
    [] p = "openai" ->
         IF ~ps.openaiClient \/ ~ps.openaiEnabled THEN "threw" ELSE "upstream"
    [] OTHER -> "threw"

\* one call of the gateway's public API
Serve(api, req, outcome) ==
  /\ Len(served) < MaxRequests
  /\ served' = Append(served, [api |-> api, provider |-> RoutedTo(req),
                               event |-> outcome])
  /\ upstreamCalls' = IF outcome = "upstream" THEN upstreamCalls + 1
                      ELSE upstreamCalls
  /\ UNCHANGED <<sessionState, foreignKeys, route, reqVars, dbVars, jobs,
                 mcpVars, sideVars, providers>>

StreamCompletion(req) ==
  Serve("stream", req, StreamOutcome(providers, RoutedTo(req)))

Complete(req) ==
  Serve("complete", req, CompleteOutcome(providers, RoutedTo(req)))

GatewayNext ==
  \/ \E p \in CloudProviders, key \in ApiKeys : EnableCloudProvider(p, key)
  \/ \E req \in Requests : StreamCompletion(req)
  \/ \E req \in Requests : Complete(req)

\* the gateway on its own
GatewayStart ==
  /\ sessionState = "ok"
  /\ foreignKeys = FALSE
  /\ route = "GET"
  /\ RequestInit
  /\ sandbox = DefaultSandbox
  /\ ManagerInit
  /\ GatewayInit
  /\ SideInit

GatewaySpec == GatewayStart /\ [][GatewayNext]_vars

\* ---------------------------------------------------------------------------
\* Several requests on one session: the counters of finalization
\* ---------------------------------------------------------------------------

\* what the requests on one session leave alone
sessFrame == <<sessionState, foreignKeys, route, reqVars, toolCallRows, jobs,
               mcpVars, gwVars, initialCount, stream, storeVars, extraVars>>

\* ids of the messages of request r
UserMessageOf(r) == <<"user", r>>

AssistantMessageOf(r) == <<"assistant", r>>

\* the handler is called: getDB, line 99
RequestReceived(r) ==
  /\ requests[r].pc = "idle"
  /\ requests' = [requests EXCEPT ![r].pc = "lookup"]
  /\ UNCHANGED <<sessFrame, dbVars>>

\* lines 104-109: the session row, with its agent, is read once
RequestLookup(r) ==
  /\ requests[r].pc = "lookup"
  /\ requests' = [requests EXCEPT ![r] = [pc |-> "saveUser",
                                          messageCount |-> messageCount,
                                          totalMessages |-> totalMessages]]
  /\ UNCHANGED <<sessFrame, dbVars>>

\* lines 119-128: the user message is persisted
RequestSaveUserMessage(r) ==
  /\ requests[r].pc = "saveUser"
  /\ msgs' = InsertMessage(msgs, UserMessageOf(r),
                           MessageRow("user", <<"u">>, <<>>))
  /\ requests' = [requests EXCEPT ![r].pc = "stream"]
  /\ UNCHANGED <<sessFrame, toolCallRows, messageCount, totalMessages>>

\* lines 162-269: the gateway stream is consumed to its end, or the request
\* ends on a gateway error (lines 262-264) or in the catch block (312-326)
RequestStreams(r, ok) ==
  /\ requests[r].pc = "stream"
  /\ requests' = [requests EXCEPT ![r].pc = IF ok THEN "fin_msg" ELSE "failed"]
  /\ UNCHANGED <<sessFrame, dbVars>>

\* lines 271-283: the assistant message is persisted
RequestSaveAssistantMessage(r) ==
  /\ requests[r].pc = "fin_msg"
  /\ msgs' = InsertMessage(msgs, AssistantMessageOf(r),
                           MessageRow("assistant", <<"a">>, <<>>))
  /\ requests' = [requests EXCEPT ![r].pc = "fin_session"]
  /\ UNCHANGED <<sessFrame, toolCallRows, messageCount, totalMessages>>

\* lines 285-292: `messageCount: session.messageCount + 2`, from the row read
\* by the lookup
SessionCounter(read) == read + 2

\* lines 285-292: the session counters are written
RequestUpdateSession(r) ==
  /\ requests[r].pc = "fin_session"
  /\ messageCount' = SessionCounter(requests[r].messageCount)
  /\ requests' = [requests EXCEPT ![r].pc = "fin_agent"]
  /\ UNCHANGED <<sessFrame, msgs, toolCallRows, totalMessages>>

\* lines 294-310: the agent statistics are written and the complete frame is
\* yielded
RequestUpdateAgent(r) ==
  /\ requests[r].pc = "fin_agent"
  /\ totalMessages' = requests[r].totalMessages + 1
  /\ requests' = [requests EXCEPT ![r].pc = "done"]
  /\ UNCHANGED <<sessFrame, msgs, toolCallRows, messageCount>>

SessionsNext ==
  \/ \E r \in 1..MaxConcurrent : RequestReceived(r)
  \/ \E r \in 1..MaxConcurrent : RequestLookup(r)
  \/ \E r \in 1..MaxConcurrent : RequestSaveUserMessage(r)
  \/ \E r \in 1..MaxConcurrent, ok \in BOOLEAN : RequestStreams(r, ok)
  \/ \E r \in 1..MaxConcurrent : RequestSaveAssistantMessage(r)
  \/ \E r \in 1..MaxConcurrent : RequestUpdateSession(r)
  \/ \E r \in 1..MaxConcurrent : RequestUpdateAgent(r)

\* message_count values a session may have when the requests arrive
InitialCounts == {0, 2}

\* the requests of one session on their own
SessionsStart ==
  /\ sessionState = "ok"
  /\ foreignKeys = FALSE
  /\ route = "GET"
  /\ pc = "getdb"
  /\ ending = "running"
  /\ session = NoSession
  /\ aborted = FALSE
  /\ cancelled = FALSE
  /\ abortObserved = FALSE
  /\ delivered = <<>>
  /\ gwFailed = FALSE
  /\ chunk = NoChunk
  /\ fullContent = <<>>
  /\ pendingToolCalls = <<>>
  /\ frames = <<>>
  /\ msgs = <<>>
  /\ toolCallRows = <<>>
  /\ initialCount \in InitialCounts
  /\ messageCount = initialCount
  /\ totalMessages = 0
  /\ jobs = <<>>
  /\ sandbox = DefaultSandbox
  /\ ManagerInit
  /\ GatewayInit
  /\ requests = [r \in 1..MaxConcurrent |-> NoRequest]
  /\ StreamInit
  /\ StoreInit
  /\ ConnectorsInit
  /\ ContextInit

SessionsSpec == SessionsStart /\ [][SessionsNext]_vars

\* requests whose session update was executed
Finalized == {r \in 1..MaxConcurrent : requests[r].pc \in {"fin_agent", "done"}}

\* ---------------------------------------------------------------------------
\* UnifiedGateway: the stream of one streamCompletion call
\* ---------------------------------------------------------------------------

\* what a gateway stream leaves alone
streamFrame == <<sessionState, foreignKeys, route, reqVars, dbVars, jobs,
                 mcpVars, gwVars, sessVars, storeVars, extraVars>>

\* providers whose stream reaches the upstream API
StreamProviders == {"ollama", "openai"}

\* outcomes of the upstream request: a 2xx response with a body, a non-2xx
\* response, a response without a body, a transport error
FetchOutcomes == {"ok", "non2xx", "nobody", "transport"}

\* lines of an NDJSON body: a content message, a tool-call message, the final
\* message, a line that is not JSON, an empty line
Lines == {"content", "tool_call", "done", "malformed", "blank"}

\* fragments of a tool call's argument string, as the provider cuts them
Fragments == {<<>>, <<"{q:">>, <<"1}">>}

\* values of Date.now() during one stream
Clock == {1, 2}

ContentEvent == [type |-> "content"]

ErrorEvent(code) == [type |-> "error", code |-> code]

ToolCallEvent(id, name, args, complete) ==
  [type |-> "tool_call", id |-> id, name |-> name, arguments |-> args,
   isComplete |-> complete]

\* `call_${Date.now()}`
GeneratedId(now) == <<"call_", now>>

\* streamCompletion is called for a provider: lines 180-189
StreamBegins(p) ==
  /\ stream.pc = "idle"
  /\ stream' = [stream EXCEPT !.provider = p, !.pc = "request"]
  /\ UNCHANGED streamFrame

\* streamOllama, lines 279-316: the fetch, the status check, the body reader
OllamaFetch(outcome) ==
  /\ stream.pc = "request"
  /\ stream.provider = "ollama"
  /\ ~stream.signal
  /\ stream' =
       [stream EXCEPT
          !.fetches = @ + 1,
          !.failure = IF outcome \in {"non2xx", "transport"} THEN outcome ELSE @,
          !.threw = outcome = "transport",
          !.events = CASE outcome = "non2xx" -> Append(@, ErrorEvent("OLLAMA_ERROR"))
                       [] outcome = "nobody" -> Append(@, ErrorEvent("STREAM_ERROR"))
                       [] OTHER -> @,
          !.pc = IF outcome = "ok" THEN "read" ELSE "done"]
  /\ UNCHANGED streamFrame

\* the events streamOllama yields for one line: lines 329-380.  A line that
\* JSON.parse rejects is skipped by the empty catch block
LineEvents(line, now) ==
  CASE line = "content" -> <<ContentEvent>>
    [] line = "tool_call" ->
         <<ToolCallEvent(GeneratedId(now), <<"web_search">>, <<"{q:", "1}">>, TRUE)>>
    [] line = "done" -> <<[type |-> "usage"], [type |-> "done"]>>
    [] OTHER -> <<>>

\* streamOllama, lines 322-380: reader.read() delivers one line
OllamaLine(line, now) ==
  /\ stream.pc = "read"
  /\ ~stream.signal
  /\ Len(stream.received) < MaxDeltas
  /\ now >= stream.now
  /\ stream' =
       [stream EXCEPT
          !.received = Append(@, [line |-> line]),
          !.now = now,
          !.failure = IF line = "malformed" THEN "malformed" ELSE @,
          !.events = @ \o LineEvents(line, now)]
  /\ UNCHANGED streamFrame

\* reader.read() rejects (connection reset, aborted signal): the finally block
\* releases the lock and the exception leaves the generator
ReadRejects ==
  /\ stream.pc \in {"read", "iterate"}
  /\ stream' = [stream EXCEPT !.failure = "transport", !.threw = TRUE,
                               !.pc = "done"]
  /\ UNCHANGED streamFrame

\* the body ends (done = true, line 323) or the completion stream is exhausted
StreamEnds ==
  /\ stream.pc \in {"read", "iterate"}
  /\ stream.provider = "ollama" => ~stream.signal
  /\ stream' = [stream EXCEPT !.pc = "done"]
  /\ UNCHANGED streamFrame

\* route.ts lines 75-87: the client disconnects and abortController.abort()
\* fires the signal the request object carries
ClientDisconnects ==
  /\ stream.pc \in {"request", "read", "iterate"}
  /\ ~stream.signal
  /\ stream' = [stream EXCEPT !.signal = TRUE]
  /\ UNCHANGED streamFrame

\* streamOllama, line 297: fetch was given request.signal, so the pending
\* fetch or reader.read() rejects with an AbortError and the generator ends
OllamaAborted ==
  /\ stream.provider = "ollama"
  /\ stream.signal
  /\ stream.pc \in {"request", "read"}
  /\ stream' = [stream EXCEPT
                  !.fetches = IF stream.pc = "request" THEN @ + 1 ELSE @,
                  !.threw = TRUE,
                  !.pc = "done"]
  /\ UNCHANGED streamFrame

\* streamOpenAI, lines 445-455: chat.completions.create resolves to a stream,
\* or rejects (the SDK throws on a transport error and on a non-2xx response)
OpenAICreate(outcome) ==
  /\ stream.pc = "request"
  /\ stream.provider = "openai"
  /\ outcome \in {"ok", "non2xx", "transport"}
  /\ stream' =
       [stream EXCEPT !.fetches = @ + 1,
                      !.failure = IF outcome = "ok" THEN @ ELSE outcome,
                      !.threw = outcome # "ok",
                      !.pc = IF outcome = "ok" THEN "iterate" ELSE "done"]
  /\ UNCHANGED streamFrame

\* line 470: `tc.id ?? call_${Date.now()}`
BufferKey(id, now) == IF id # NoId THEN id ELSE GeneratedId(now)

\* lines 471-475: the buffer of the key, with name and fragment appended
Buffered(buffers, key, name, fragment) ==
  LET old == IF key \in DOMAIN buffers THEN buffers[key]
             ELSE [name |-> <<>>, arguments |-> <<>>]
  IN [name |-> old.name \o name, arguments |-> old.arguments \o fragment]

\* lines 477-480: the completion heuristic
IsComplete(buffer, fragment) ==
  /\ buffer.name # <<>>
  /\ buffer.arguments # <<>>
  /\ "1}" \in Range(fragment)

\* streamOpenAI, lines 459-465: a chunk with a content delta
OpenAIContent ==
  /\ stream.pc = "iterate"
  /\ Len(stream.received) < MaxDeltas
  /\ stream' = [stream EXCEPT !.received = Append(@, [line |-> "content"]),
                               !.events = Append(@, ContentEvent)]
  /\ UNCHANGED streamFrame

\* streamOpenAI, lines 467-492: a chunk with one tool-call delta.  The first
\* delta of a call carries its id and name; a later one may carry neither
OpenAIToolCallDelta(id, fragment, now) ==
  /\ stream.pc = "iterate"
  /\ Len(stream.received) < MaxDeltas
  /\ now >= stream.now
  /\ id = NoId => stream.announced # NoId
  /\ LET call == IF id # NoId THEN id ELSE stream.announced
         name == IF id # NoId /\ id \notin DOMAIN stream.buffers
                 THEN <<"web_search">> ELSE <<>>
         key == BufferKey(id, now)
         buffer == Buffered(stream.buffers, key, name, fragment)
     IN stream' =
          [stream EXCEPT
             !.received = Append(@, [line |-> "tool_call", call |-> call,
                                     fragment |-> fragment]),
             !.announced = call,
             !.now = now,
             !.buffers = [k \in DOMAIN @ \cup {key} |->
                            IF k = key THEN buffer ELSE @[k]],
             !.events = Append(@, ToolCallEvent(key, buffer.name,
                                                buffer.arguments,
                                                IsComplete(buffer, fragment)))]
  /\ UNCHANGED streamFrame

StreamNext ==
  \/ \E p \in StreamProviders : StreamBegins(p)
  \/ \E o \in FetchOutcomes : OllamaFetch(o)
  \/ \E l \in Lines, t \in Clock : OllamaLine(l, t)
  \/ ReadRejects
  \/ StreamEnds
  \/ ClientDisconnects
  \/ OllamaAborted
  \/ \E o \in FetchOutcomes : OpenAICreate(o)
  \/ OpenAIContent
  \/ \E id \in CallIds \cup {NoId}, f \in Fragments, t \in Clock :
       OpenAIToolCallDelta(id, f, t)

\* one gateway stream on its own, on a gateway with OpenAI enabled
StreamStart ==
  /\ sessionState = "ok"
  /\ foreignKeys = FALSE
  /\ route = "GET"
  /\ RequestInit
  /\ sandbox = DefaultSandbox
  /\ ManagerInit
  /\ providers = [openaiEnabled |-> TRUE, openaiClient |-> TRUE,
                  anthropicEnabled |-> FALSE, anthropicKey |-> ""]
  /\ upstreamCalls = 0
  /\ served = <<>>
  /\ SideInit

StreamSpec == StreamStart /\ [][StreamNext]_vars

\* ---------------------------------------------------------------------------
\* Client chat store: sendMessage and the ephemeral stream state
\* ---------------------------------------------------------------------------

\* what the client store leaves alone
storeFrame == <<sessionState, foreignKeys, route, reqVars, dbVars, jobs,
                mcpVars, gwVars, sessVars, stream, extraVars>>

\* frames the client may read from the response body; "malformed" is a data
\* line JSON.parse rejects
ClientFrames == {"start", "content", "error", "complete", "malformed"}

\* a finally block that resets isSending and leaves the stream state
FinallyKeepsStream(st) ==
  [st EXCEPT !.controller = 0, !.isSending = FALSE]

\* lines 535-541: the finally block of sendMessage
Finally(st) ==
  [st EXCEPT !.controller = 0, !.isSending = FALSE,
             !.stream = initialStreamState]

\* lines 525-534: the catch block; an AbortError leaves `error` alone
CatchError(st, isAbort, message) ==
  IF isAbort THEN st ELSE [st EXCEPT !.error = message]

\* the messageId the server gives the response of the n-th sendMessage call
MessageIds == <<"m1", "m2", "m3", "m4">>

\* lines 640-675: startStream; `messages` maps the id of an assistant
\* placeholder to its isStreaming flag
StartStream(st, messageId) ==
  [st EXCEPT !.stream = [isStreaming |-> TRUE, messageId |-> messageId,
                         sessionId |-> "s", error |-> "null"],
             !.messages = IF messageId \in DOMAIN @ THEN @
                          ELSE @ @@ (messageId :> TRUE)]

\* lines 677-690: endStream
EndStream(st) ==
  [st EXCEPT !.stream = initialStreamState,
             !.messages =
                IF /\ st.stream.sessionId # "null"
                   /\ st.stream.messageId # "null"
                   /\ st.stream.messageId \in DOMAIN @
                THEN [@ EXCEPT ![st.stream.messageId] = FALSE]
                ELSE @]

\* lines 553-638: handleStreamChunk, as far as it touches the stream state and
\* the isStreaming flags; a malformed line never reaches it (lines 516-521)
HandleStreamChunk(st, frame, messageId) ==
  CASE frame = "start" -> StartStream(st, messageId)
    [] frame = "error" -> [st EXCEPT !.stream.error = "Stream error"]
    [] frame = "complete" -> EndStream(st)
    [] OTHER -> st

\* lines 433-447: sendMessage without a session or without content returns
\* before anything is sent
SendRejected(n, noSession) ==
  /\ sends[n].pc = "idle"
  /\ store' = IF noSession THEN [store EXCEPT !.error = "No active session"]
              ELSE store
  /\ sends' = [sends EXCEPT ![n].pc = "settled", ![n].outcome = "rejected"]
  /\ UNCHANGED storeFrame

\* lines 449-479: isSending is set, the AbortController is created, and the
\* fetch is started
SendMessage(n) ==
  /\ sends[n].pc = "idle"
  /\ store' = [store EXCEPT !.isSending = TRUE, !.error = "null",
                            !.controller = n]
  /\ sends' = [sends EXCEPT ![n].pc = "fetch"]
  /\ UNCHANGED storeFrame

\* lines 544-547: abortStream aborts the controller in `_abortController`
AbortStream ==
  /\ store.controller # 0
  /\ sends' = [sends EXCEPT ![store.controller].aborted = TRUE]
  /\ store' = [store EXCEPT !.controller = 0]
  /\ UNCHANGED storeFrame

\* the call ends through its catch and finally blocks
Settle(n, isAbort, message, outcome) ==
  /\ store' = Finally(CatchError(store, isAbort, message))
  /\ sends' = [sends EXCEPT ![n].pc = "settled", ![n].outcome = outcome]

\* lines 483-502: the fetch resolves with a readable 2xx response
FetchResolves(n) ==
  /\ sends[n].pc = "fetch"
  /\ ~sends[n].aborted
  /\ sends' = [sends EXCEPT ![n].pc = "read"]
  /\ UNCHANGED <<storeFrame, store>>

\* lines 483-502, 525-541: the fetch rejects, or the response is not ok or
\* has no body
FetchFails(n, message) ==
  /\ sends[n].pc = "fetch"
  /\ ~sends[n].aborted
  /\ Settle(n, FALSE, message, "failed")
  /\ UNCHANGED storeFrame

\* lines 507-523: reader.read() delivers one data line
ReadFrame(n, frame) ==
  /\ sends[n].pc = "read"
  /\ ~sends[n].aborted
  /\ sends[n].read < MaxFrames
  /\ sends[n].last \notin {"error", "complete"}
  /\ store' = HandleStreamChunk(store, frame, MessageIds[n])
  /\ sends' = [sends EXCEPT ![n].read = @ + 1,
                            ![n].last = IF frame = "malformed" THEN @ ELSE frame]
  /\ UNCHANGED storeFrame

\* lines 508-509, 535-541: the body ends and the finally block runs
ReadDone(n) ==
  /\ sends[n].pc = "read"
  /\ ~sends[n].aborted
  /\ store' = Finally(store)
  /\ sends' = [sends EXCEPT
                 ![n].pc = "settled",
                 ![n].outcome = IF sends[n].last \in {"error", "complete"}
                                THEN sends[n].last ELSE "closed"]
  /\ UNCHANGED storeFrame

\* reader.read() rejects with a network error
ReadFails(n) ==
  /\ sends[n].pc = "read"
  /\ ~sends[n].aborted
  /\ Settle(n, FALSE, "network error", "failed")
  /\ UNCHANGED storeFrame

\* the aborted signal rejects the pending fetch or read with an AbortError
AbortObserved(n) ==
  /\ sends[n].pc \in {"fetch", "read"}
  /\ sends[n].aborted
  /\ Settle(n, TRUE, "AbortError", "abort")
  /\ UNCHANGED storeFrame

StoreNext ==
  \/ \E n \in 1..MaxSends, b \in BOOLEAN : SendRejected(n, b)
  \/ \E n \in 1..MaxSends : SendMessage(n)
  \/ AbortStream
  \/ \E n \in 1..MaxSends : FetchResolves(n)
  \/ \E n \in 1..MaxSends :
       \E m \in {"Failed to send message", "No response body"} : FetchFails(n, m)
  \/ \E n \in 1..MaxSends, f \in ClientFrames : ReadFrame(n, f)
  \/ \E n \in 1..MaxSends : ReadDone(n)
  \/ \E n \in 1..MaxSends : ReadFails(n)
  \/ \E n \in 1..MaxSends : AbortObserved(n)

\* the client store on its own
StoreStart ==
  /\ sessionState = "ok"
  /\ foreignKeys = FALSE
  /\ route = "POST"
  /\ RequestInit
  /\ sandbox = DefaultSandbox
  /\ ManagerInit
  /\ GatewayInit
  /\ SideInit

StoreSpec == StoreStart /\ [][StoreNext]_vars

\* ---------------------------------------------------------------------------
\* MCPServerManager: connectServer calls racing for one server id
\* ---------------------------------------------------------------------------

\* what the racing connectServer calls leave alone
connFrame == <<sessionState, foreignKeys, route, reqVars, dbVars, jobs, gwVars,
               sessVars, stream, storeVars, sandbox, connecting, calls,
               dispatched, context>>

\* lines 447-468: the `existing` check; without an entry a new MCPClient is
\* created and client.connect() is awaited
ConnectServerCalled(k) ==
  /\ connectors[k].pc = "idle"
  /\ IF Connected
     THEN /\ connections' = [connections EXCEPT ![ServerId].stale = FALSE]
          /\ connectors' = [connectors EXCEPT ![k].pc = "returned"]
     ELSE /\ connectors' = [connectors EXCEPT ![k].pc = "handshake"]
          /\ UNCHANGED connections
  /\ UNCHANGED <<connFrame, serverStatus>>

\* lines 468-478: client.connect() resolves and the entry is stored under the
\* server id, whatever the map holds by then
ClientConnected(k) ==
  /\ connectors[k].pc = "handshake"
  /\ connectors' = [connectors EXCEPT ![k].pc = "stored", ![k].open = TRUE]
  /\ connections' = (ServerId :> NewConnection(k))
  /\ UNCHANGED <<connFrame, serverStatus>>

\* lines 487-494: client.connect() rejects; the catch block records the error
ClientConnectRejected(k) ==
  /\ connectors[k].pc = "handshake"
  /\ connectors' = [connectors EXCEPT ![k].pc = "returned"]
  /\ serverStatus' = [status |-> "error", message |-> "Connection failed"]
  /\ UNCHANGED <<connFrame, connections>>

\* lines 480-481: the status row is updated
ConnectorStatusConnected(k) ==
  /\ connectors[k].pc = "stored"
  /\ connectors' = [connectors EXCEPT ![k].pc = "sync"]
  /\ serverStatus' = [status |-> "connected", message |-> "none"]
  /\ UNCHANGED <<connFrame, connections>>

\* lines 483-494: the tools are synced and connectServer returns; a failed
\* sync lands in the catch block, which records the error and leaves the entry
ConnectServerReturns(k, synced) ==
  /\ connectors[k].pc = "sync"
  /\ connectors' = [connectors EXCEPT ![k].pc = "returned"]
  /\ serverStatus' = IF synced THEN serverStatus
                     ELSE [status |-> "error", message |-> "sync failed"]
  /\ UNCHANGED <<connFrame, connections>>

\* lines 500-508: disconnectServer disconnects the client of the entry and
\* deletes the entry
DisconnectServer ==
  /\ Connected
  /\ connectors' = [connectors EXCEPT ![connections[ServerId].gen].open = FALSE]
  /\ connections' = <<>>
  /\ serverStatus' = [status |-> "disconnected", message |-> "none"]
  /\ UNCHANGED connFrame

ConnectorsNext ==
  \/ \E k \in 1..MaxConnectors : ConnectServerCalled(k)
  \/ \E k \in 1..MaxConnectors : ClientConnected(k)
  \/ \E k \in 1..MaxConnectors : ClientConnectRejected(k)
  \/ \E k \in 1..MaxConnectors : ConnectorStatusConnected(k)
  \/ \E k \in 1..MaxConnectors, ok \in BOOLEAN : ConnectServerReturns(k, ok)
  \/ DisconnectServer

\* the manager with no connection and no call made
ConnectorsStart ==
  /\ sessionState = "ok"
  /\ foreignKeys = FALSE
  /\ route = "GET"
  /\ RequestInit
  /\ sandbox = DefaultSandbox
  /\ ManagerInit
  /\ GatewayInit
  /\ SideInit

ConnectorsSpec == ConnectorsStart /\ [][ConnectorsNext]_vars

\* ---------------------------------------------------------------------------
\* streamConversation: the message list passed to the gateway
\* ---------------------------------------------------------------------------

\* what building the context leaves alone
contextFrame == <<sessionState, foreignKeys, route, reqVars, dbVars, jobs,
                  mcpVars, gwVars, sessVars, stream, storeVars, connectors>>

\* where an entry of the message list comes from: the system prompt, the
\* userMessage argument, or the row of that id
SystemPrompt == [role |-> "system", id |-> 0]

UserMessageArgument == [role |-> "user", id |-> -1]

Reverse(q) == [i \in 1..Len(q) |-> q[Len(q) + 1 - i]]

\* lines 119-128: the user message is inserted; created_at is unixepoch(), so
\* it shares its second with the newest row when `sameSecond`
InsertUserMessage(rows, sameSecond) ==
  Append(rows,
         [id |-> Len(rows) + 1, role |-> "user",
          at |-> IF rows = <<>> THEN 1
                 ELSE IF sameSecond THEN rows[Len(rows)].at
                 ELSE rows[Len(rows)].at + 1])

\* lines 140-144: ORDER BY created_at DESC LIMIT 10.  Rows of one second come
\* in either order: `swap` is the order the database picked for the two newest
FindMany(rows, swap) ==
  LET desc == Reverse(rows)
      tied == Len(desc) >= 2 /\ desc[1].at = desc[2].at
      ordered == IF swap /\ tied
                 THEN <<desc[2], desc[1]>> \o SubSeq(desc, 3, Len(desc))
                 ELSE desc
  IN SubSeq(ordered, 1, IF Len(ordered) < HistoryLimit THEN Len(ordered)
                        ELSE HistoryLimit)

\* lines 146-151: messageHistory.reverse().map(...)
History(found) ==
  [i \in 1..Len(found) |-> [role |-> Reverse(found)[i].role,
                            id |-> Reverse(found)[i].id]]

\* lines 173-177: system prompt, history, userMessage
GatewayMessages(history) ==
  <<SystemPrompt>> \o history \o <<UserMessageArgument>>

\* lines 119-128
ContextSaveUserMessage(sameSecond) ==
  /\ context.pc = "saveUser"
  /\ context' = [context EXCEPT
                   !.rows = InsertUserMessage(@, sameSecond),
                   !.pc = "history"]
  /\ UNCHANGED contextFrame

\* lines 139-151
ContextLoadHistory(swap) ==
  /\ context.pc = "history"
  /\ context' = [context EXCEPT
                   !.history = History(FindMany(context.rows, swap)),
                   !.pc = "stream"]
  /\ UNCHANGED contextFrame

\* lines 171-181: streamCompletion is called with the message list
ContextStreamCompletion ==
  /\ context.pc = "stream"
  /\ context' = [context EXCEPT
                   !.messages = GatewayMessages(context.history),
                   !.pc = "streaming"]
  /\ UNCHANGED contextFrame

ContextNext ==
  \/ \E b \in BOOLEAN : ContextSaveUserMessage(b)
  \/ \E b \in BOOLEAN : ContextLoadHistory(b)
  \/ ContextStreamCompletion

\* a request arrives at a session of up to MaxPrior messages
ContextStart ==
  /\ sessionState = "ok"
  /\ foreignKeys = FALSE
  /\ route = "GET"
  /\ RequestInit
  /\ sandbox = DefaultSandbox
  /\ ManagerInit
  /\ GatewayInit
  /\ SessionsInit
  /\ StreamInit
  /\ StoreInit
  /\ ConnectorsInit
  /\ \E n \in 0..MaxPrior, first \in {"user", "assistant"} :
       context = [NoContext EXCEPT !.rows = PriorRows(n, first)]

ContextSpec == ContextStart /\ [][ContextNext]_vars

\* ---------------------------------------------------------------------------
\* Properties
\* ---------------------------------------------------------------------------

IsPrefix(s, t) == Len(s) <= Len(t) /\ \A i \in 1..Len(s) : s[i] = t[i]

Last(s) == s[Len(s)]

RECURSIVE FramePayloads(_, _)
\* payloads of the frames of one type, in emission order
FramePayloads(fs, type) ==
  IF fs = <<>> THEN <<>>
  ELSE IF Head(fs).type = type
       THEN <<Head(fs).payload>> \o FramePayloads(Tail(fs), type)
       ELSE FramePayloads(Tail(fs), type)

RECURSIVE ToolCallEvents(_, _)
\* argument buffers of the tool_call chunks of one call id, in delivery order
ToolCallEvents(cs, id) ==
  IF cs = <<>> THEN <<>>
  ELSE IF Head(cs).type = "tool_call" /\ Head(cs).id = id
       THEN <<<<id, Head(cs).arguments>>>> \o ToolCallEvents(Tail(cs), id)
       ELSE ToolCallEvents(Tail(cs), id)

RECURSIVE ToolCallFramesOf(_, _)
\* payloads of the tool_call frames of one call id, in emission order
ToolCallFramesOf(fs, id) ==
  IF fs = <<>> THEN <<>>
  ELSE IF Head(fs).type = "tool_call" /\ Head(fs).payload[1] = id
       THEN <<Head(fs).payload>> \o ToolCallFramesOf(Tail(fs), id)
       ELSE ToolCallFramesOf(Tail(fs), id)

TerminatingFrames == {"error", "complete"}

AssistantPersisted == AssistantMessageId \in DOMAIN msgs

JobFinished(j) == j \in DOMAIN jobs /\ jobs[j].state \in {"completed", "failed"}

\* C1: the content of the persisted assistant Message equals the concatenation,
\* in arrival order, of the content fields of the content events the gateway
\* delivered to the request.
C1_PersistedContentIsConcatenation ==
  AssistantPersisted =>
    msgs[AssistantMessageId].content = Concat(SelectContent(delivered))

\* C2: the content frames carry, one by one and in order, the texts of the
\* non-empty content events the gateway delivered, and the tool_call frames of
\* each call id carry that id's tool_call events in delivery order.
C2_FramesInDeliveryOrder ==
  /\ IsPrefix(FramePayloads(frames, "content"), SelectContent(delivered))
  /\ \A id \in CallIds :
       IsPrefix(ToolCallFramesOf(frames, id), ToolCallEvents(delivered, id))

C2_Witness ==
  /\ \E i, k \in 1..Len(frames) :
       /\ i < k
       /\ frames[i].type = "content" /\ frames[k].type = "content"
       /\ frames[i].payload # frames[k].payload
  /\ ~aborted

\* C3: a request that ended without a client abort has emitted exactly one
\* terminating frame (error or complete), and it is the last frame.
C3_EndsWithTerminatingFrame ==
  (pc = "done" /\ ~aborted) =>
    /\ frames # <<>>
    /\ Last(frames).type \in TerminatingFrames
    /\ \A i \in 1..(Len(frames) - 1) : frames[i].type \notin TerminatingFrames

\* C4: once the gateway has failed after content was streamed, the request
\* ends with an error frame and no assistant Message is persisted.
C4_GatewayFailurePersistsNothing ==
  (gwFailed /\ fullContent # <<>>) =>
    /\ ~AssistantPersisted
    /\ pc = "done"
    /\ Last(frames).type = "error"

C4_Witness ==
  /\ gwFailed
  /\ fullContent = <<"a">> \o <<"b">>
  /\ pc = "done"
  /\ ~aborted

\* C5: with the session or its agent missing, nothing is written, the gateway
\* is never opened, no start frame is emitted, and the lookup's answer is the
\* single frame error SESSION_NOT_FOUND, after which the generator has ended.
C5_MissingSessionFailsFast ==
  sessionState # "ok" =>
    /\ msgs = <<>> /\ toolCallRows = <<>> /\ jobs = <<>>
    /\ messageCount = 0 /\ totalMessages = 0
    /\ delivered = <<>> /\ ~gwFailed
    /\ \A i \in 1..Len(frames) : frames[i].type # "start"
    /\ pc \in {"getdb", "lookup", "done"}
    /\ pc = "done" => ending \in {"not_found", "threw", "caught"}
    /\ ending = "not_found" => frames = <<ErrorFrame("SESSION_NOT_FOUND")>>

C5_Witness ==
  /\ sessionState = "no_agent"
  /\ ending = "not_found"
  /\ pc = "done"

C7_RowBeforeJob ==
  /\ \A j \in DOMAIN jobs : j \in DOMAIN toolCallRows
  /\ pc = "tc_submit" =>
       /\ CurrentToolCallId \in DOMAIN toolCallRows
       /\ toolCallRows[CurrentToolCallId].status = "pending"
       /\ CurrentToolCallId \notin DOMAIN jobs

C7_Witness ==
  /\ pc = "done"
  /\ \E j \in DOMAIN jobs :
       /\ jobs[j].state = "waiting" /\ jobs[j].attemptsMade = 0
       /\ toolCallRows[j].status = "pending"

C9_NoFrameAfterAbort ==
  [][abortObserved => frames' = frames]_vars

C12_ResultWriteOverwritesRow ==
  [][\A j \in DOMAIN jobs :
       (jobs[j].wpc \in {"write", "catchWrite"} /\ jobs'[j].wpc # jobs[j].wpc) =>
         /\ DOMAIN toolCallRows' = DOMAIN toolCallRows
         /\ \A k \in DOMAIN toolCallRows \ {j} : toolCallRows'[k] = toolCallRows[k]
         /\ IF jobs[j].result = "success"
            THEN /\ toolCallRows'[j].status = "completed"
                 /\ toolCallRows'[j].hasResult
            ELSE /\ toolCallRows'[j].status = "error"
                 /\ toolCallRows'[j].error = jobs[j].result]_vars

\* a second delivery has overwritten the first: an error, then a success
C12_Witness ==
  /\ Cardinality(DOMAIN toolCallRows) = 1
  /\ \E j \in DOMAIN jobs :
       /\ jobs[j].state = "completed"
       /\ jobs[j].attemptsMade = 2
       /\ toolCallRows[j].status = "completed"
       /\ toolCallRows[j].error \in ThrowReasons

\* the arguments contain an http:// URL anywhere: in any value, at any depth,
\* at any position of a string
ContainsHttpUrl(args) ==
  \E i \in 1..Len(args) :
    \E k \in 1..Len(args[i].parts) : args[i].parts[k] = "http://"

\* C13: with networkEnabled=false, an executeTool call whose arguments contain
\* an http:// URL never reaches client.callTool and returns success:false.
C13_UrlIsRejectedWithoutSideEffects ==
  \A c \in 1..MaxCalls :
    (~sandbox.networkEnabled /\ ContainsHttpUrl(calls[c].args)) =>
      /\ ~calls[c].invoked
      /\ calls[c].pc = "returned" => ~calls[c].result.success

\* C14: when executeTool runs its checks on a connection, the failure it
\* returns is that of the earliest violated check in the order quota, network,
\* allowlist, and the tool is invoked exactly when none of the three is
\* violated.
C14_ChecksInFixedOrder ==
  [][\A c \in 1..MaxCalls :
       (calls[c].pc = "ready" /\ calls'[c].pc # "ready" /\ Connected) =>
         LET q == QuotaExhausted(connections[ServerId], sandbox)
             n == NetworkBlocked(sandbox, calls[c].args)
             d == DomainBlocked(sandbox, calls[c].args)
         IN /\ q => calls'[c].result = Failure("Tool call limit exceeded")
            /\ (~q /\ n) =>
                 calls'[c].result =
                   Failure("Network access is disabled for this server")
            /\ (~q /\ ~n /\ d) =>
                 calls'[c].result = Failure("Domain is not in the allowed list")
            /\ calls'[c].invoked <=> (~q /\ ~n /\ ~d)
            /\ (q \/ n \/ d) => calls'[c].pc = "returned"]_vars

\* all three checks were violated at once and the quota failure was returned
C14_Witness ==
  \E c \in 1..MaxCalls :
    /\ calls[c].pc = "returned"
    /\ calls[c].result = Failure("Tool call limit exceeded")
    /\ NetworkBlocked(sandbox, calls[c].args)
    /\ DomainBlocked(sandbox, calls[c].args)

\* C15: executeTool never ends with an exception; a call that returned holds
\* a success, or success:false with an error message, and a call that was
\* rejected before the tool was invoked holds a failure.
C15_ExecuteToolNeverThrows ==
  \A c \in 1..MaxCalls :
    /\ ~calls[c].result.threw
    /\ calls[c].pc = "returned" =>
         /\ calls[c].result.success => calls[c].result = Success
         /\ ~calls[c].result.success => calls[c].result.error \notin {"none", "pending"}
         /\ ~calls[c].invoked => ~calls[c].result.success

\* one call found no connection, another timed out: both returned a failure
C15_Witness ==
  \E c, d \in 1..MaxCalls :
    /\ calls[c].pc = "returned"
    /\ calls[c].result = Failure("Server is not connected")
    /\ calls[d].pc = "returned"
    /\ calls[d].result = Failure("Tool execution timed out")

\* C16: with a quota N set, at most N calls are dispatched to the tool on one
\* connection.
C16_QuotaBoundsDispatchedCalls ==
  sandbox.maxToolCallsPerSession # 0 =>
    dispatched <= sandbox.maxToolCallsPerSession

\* C17: the step in which the timer fires on an unsettled call ends
\* executeTool with success:false and the timeout error, and every call that
\* is racing its timer eventually returns even if the tool never answers.
C17_TimeoutResolvesToFailure ==
  /\ [][\A c \in 1..MaxCalls :
          TimerFires(c) =>
            /\ calls'[c].pc = "returned"
            /\ calls'[c].result = Failure("Tool execution timed out")]_vars
  /\ \A c \in 1..MaxCalls :
       (calls[c].pc = "racing") ~> (calls[c].pc = "returned")

\* both calls were in flight together and both ended by their timers
C17_Witness ==
  \A c \in 1..MaxCalls :
    /\ calls[c].pc = "returned"
    /\ calls[c].invoked
    /\ calls[c].result = Failure("Tool execution timed out")

\* C18: while an executeTool call is in flight, the connection it runs on is
\* still in the connection map.
C18_NoEvictionDuringCall ==
  \A c \in 1..MaxCalls :
    calls[c].pc = "racing" =>
      /\ Connected
      /\ connections[ServerId].gen = calls[c].gen

\* C19: the step in which connectServer ends in failure leaves the server's
\* status error with the failure reason and no entry in the connection map.
C19_FailedConnectLeavesNoEntry ==
  [][(connecting.pc # "idle" /\ connecting'.pc = "idle"
        /\ connecting'.result = "error") =>
       /\ serverStatus' = [status |-> "error", message |-> connecting'.reason]
       /\ ~(ServerId \in DOMAIN connections')]_vars

\* C20: a request routed to a cloud provider that is not enabled fails with
\* the error code PROVIDER_NOT_ENABLED and makes no upstream call, and a cloud
\* provider makes an upstream call only when it is enabled.
C20_DisabledProviderIsRefused ==
  [][Len(served') = Len(served) + 1 =>
       LET r == served'[Len(served')]
       IN /\ (r.provider \in CloudProviders
                /\ ~ProviderEnabled(providers, r.provider)) =>
               /\ r.event = "PROVIDER_NOT_ENABLED"
               /\ upstreamCalls' = upstreamCalls
          /\ (r.provider \in CloudProviders /\ r.event = "upstream") =>
               ProviderEnabled(providers, r.provider)]_vars

ToolCallSteps == {"tc_lookup", "tc_insert", "tc_submit"}

\* C24: a step that handles one tool call never ends the generator in its
\* catch block; the loop goes on to the next chunk.
C24_ToolCallErrorKeepsStreaming ==
  [][(pc \in ToolCallSteps) => (ending' # "caught")]_vars

C27_ToolCallIdsAreSubmittedRows ==
  [][(~AssistantPersisted /\ AssistantPersisted') =>
       Range(msgs'[AssistantMessageId].toolCallIds) = DOMAIN jobs']_vars

C23_CountIsInitialPlusTwoPerRequest ==
  messageCount = initialCount + 2 * Cardinality(Finalized)

\* error events of a stream
ErrorEvents(events) == {i \in 1..Len(events) : events[i].type = "error"}

\* C21: a stream whose upstream request met a transport error, a non-2xx
\* response or a malformed line ends with exactly one error event, which is
\* its last event, and without an exception; one call makes at most one
\* upstream request.
C21_FailureIsSingleTerminalErrorEvent ==
  /\ stream.fetches <= 1
  /\ ErrorEvents(stream.events) \subseteq {Len(stream.events)}
  /\ (stream.pc = "done" /\ stream.failure # "none") =>
       /\ ~stream.threw
       /\ ErrorEvents(stream.events) = {Len(stream.events)}
       /\ stream.events # <<>>

RECURSIVE FragmentsOf(_, _)
\* the argument fragments the provider sent for one call, concatenated in
\* arrival order
FragmentsOf(received, call) ==
  IF received = <<>> THEN <<>>
  ELSE IF Head(received).line = "tool_call" /\ Head(received).call = call
       THEN Head(received).fragment \o FragmentsOf(Tail(received), call)
       ELSE FragmentsOf(Tail(received), call)

\* C30: the tool_call event the gateway yields for a delta of the OpenAI
\* stream carries the id of the call the delta belongs to and, as arguments,
\* all fragments the provider has sent for that call so far.
C30_ArgumentsAccumulatePerCallId ==
  [][(stream.provider = "openai"
        /\ Len(stream'.events) = Len(stream.events) + 1
        /\ stream'.events[Len(stream'.events)].type = "tool_call") =>
       LET ev == stream'.events[Len(stream'.events)]
       IN /\ ev.id = stream'.announced
          /\ ev.arguments = FragmentsOf(stream'.received, stream'.announced)]_vars

\* outcomes of a sendMessage call that was sent: complete frame, error frame,
\* failed request, client abort, and a body that ended without either frame
SendOutcomes == {"complete", "error", "failed", "abort", "closed"}

\* C25: the step in which a sendMessage call ends, whatever its outcome,
\* leaves the stream state at its initial value and isSending false.
C25_StreamStateResetAfterSend ==
  [][\A n \in 1..MaxSends :
       (sends[n].pc # "settled" /\ sends'[n].pc = "settled"
          /\ sends'[n].outcome \in SendOutcomes) =>
         /\ store'.stream = initialStreamState
         /\ ~store'.isSending]_vars

C25_Witness ==
  /\ \E n \in 1..MaxSends : sends[n].outcome = "error" /\ sends[n].read >= 2
  /\ \E n \in 1..MaxSends : sends[n].outcome = "abort" /\ sends[n].last = "start"
  /\ store.stream = initialStreamState
  /\ ~store.isSending

\* positions of the done events in a chunk sequence
DoneAt(cs) == {i \in 1..Len(cs) : cs[i].type = "done"}

\* C32: an assistant Message is persisted only after the gateway delivered
\* done, and its content is that of the events up to the first done.
C32_FinalizedOnlyAfterDone ==
  AssistantPersisted =>
    /\ DoneAt(delivered) # {}
    /\ LET first == CHOOSE i \in DoneAt(delivered) :
                      \A j \in DoneAt(delivered) : i <= j
       IN msgs[AssistantMessageId].content =
            Concat(SelectContent(SubSeq(delivered, 1, first)))

\* C33: a request whose loop saw the cancellation signal persists no assistant
\* Message and leaves the counters of the session and of the agent alone.
C33_AbortPersistsNothing ==
  abortObserved =>
    /\ ~AssistantPersisted
    /\ messageCount = 0
    /\ totalMessages = 0

\* positions of a sendMessage call with a request in flight
InFlight == {"fetch", "read"}

\* C38: the controller of a request in flight stays in `_abortController`
\* until that request is aborted or settles, whatever other calls do.
C38_ControllerKeptWhileInFlight ==
  [][\A n \in 1..MaxSends :
       (store.controller = n /\ sends[n].pc \in InFlight
          /\ sends'[n].pc \in InFlight /\ ~sends'[n].aborted) =>
         store'.controller = n]_vars

\* calls that dispatched client.callTool on the current connection and have
\* returned
ReturnedCalls ==
  {c \in 1..MaxCalls : /\ calls[c].invoked
                       /\ calls[c].pc = "returned"
                       /\ calls[c].gen = connections[ServerId].gen}

\* C35: the connection's toolCallCount is the number of executeTool calls
\* that dispatched client.callTool on it and have returned, whatever their
\* outcome.
C35_CountEqualsDispatchedCalls ==
  Connected => connections[ServerId].toolCallCount = Cardinality(ReturnedCalls)

\* connectServer calls whose MCPClient is connected to the server
OpenClients == {k \in 1..MaxConnectors : connectors[k].open}

\* C34: every connected MCPClient of the server id is the one stored in the
\* connection map, so at most one is connected at a time.
C34_OneConnectedClientPerServer ==
  \A k \in OpenClients : Connected /\ connections[ServerId].gen = k

\* the id of the row of the current user message
CurrentUserRow == Len(context.rows)

\* the last n entries of a sequence
LastN(q, n) == IF Len(q) <= n THEN q ELSE SubSeq(q, Len(q) - n + 1, Len(q))

\* C36: the message list passed to the gateway is the system prompt, the last
\* HistoryLimit messages persisted before the request, oldest first, and the
\* current user message, which it holds once.
C36_MessageListHoldsUserMessageOnce ==
  context.pc = "streaming" =>
    LET prior == SubSeq(context.rows, 1, CurrentUserRow - 1)
        expected == [i \in 1..Len(LastN(prior, HistoryLimit)) |->
                       [role |-> LastN(prior, HistoryLimit)[i].role,
                        id |-> LastN(prior, HistoryLimit)[i].id]]
    IN /\ context.messages =
            <<SystemPrompt>> \o expected \o <<UserMessageArgument>>
       /\ Cardinality({i \in 1..Len(context.messages) :
                         context.messages[i].id \in {-1, CurrentUserRow}}) = 1

\* C37: when a sendMessage call that was sent ends, the assistant placeholder
\* its start frame created has isStreaming false.
C37_NoPlaceholderLeftStreaming ==
  [][\A n \in 1..MaxSends :
       (sends[n].pc # "settled" /\ sends'[n].pc = "settled"
          /\ sends'[n].outcome \in {"complete", "error", "failed", "abort"}
          /\ MessageIds[n] \in DOMAIN store'.messages) =>
         ~store'.messages[MessageIds[n]]]_vars

\* C31: once the cancellation signal has fired, the gateway takes nothing
\* more from the upstream request, on the Ollama and on the OpenAI path.
C31_SignalStopsUpstream ==
  [][stream.signal => stream'.received = stream.received]_vars

====
